---- MODULE Spec2Model ----
(***************************************************************************)
(* A model of flamegraph/flamegraph.py: the SIGPROF-driven sampling        *)
(* profiler (class Profiler), its stack encoder and its report writer.     *)
(*                                                                         *)
(* Strings are sequences of character codes (Python compares str by code   *)
(* point), so that sorting, joining, formatting and regex search are       *)
(* computed and not assumed.  Function and file names are abbreviated to   *)
(* one letter to keep the strings short.                                   *)
(*                                                                         *)
(* The main thread is a base activation (the calling program) with a       *)
(* stack of on_itimer activations on top: CPython runs a Python-level      *)
(* signal handler in the main thread, between two bytecodes of whatever    *)
(* the main thread is executing, handlers included.  A second thread       *)
(* ("aux") may call stop().                                                *)
(***************************************************************************)
EXTENDS Integers, Sequences, FiniteSets, TLC

----------------------------------------------------------------------------
(* Bounds of the model *)

\* timer expiries delivered to the process
MaxTicks == 2
\* start() calls made by the calling program
MaxStarts == 2
\* explicit stop() calls made by the calling program (main thread)
MaxStops == 1

----------------------------------------------------------------------------
(* Strings *)

\* str(n) for a natural number
RECURSIVE Str(_)
Str(n) == IF n < 10 THEN <<48 + n>> ELSE Str(n \div 10) \o <<48 + (n % 10)>>

\* sep.join(parts)
RECURSIVE Join(_, _)
Join(sep, parts) ==
    IF parts = <<>> THEN <<>>
    ELSE IF Len(parts) = 1 THEN parts[1]
    ELSE parts[1] \o sep \o Join(sep, Tail(parts))

\* a < b for Python str
RECURSIVE StrLess(_, _)
StrLess(a, b) ==
    IF b = <<>> THEN FALSE
    ELSE IF a = <<>> THEN TRUE
    ELSE IF a[1] # b[1] THEN a[1] < b[1]
    ELSE StrLess(Tail(a), Tail(b))

\* re.search(pat, s) for a pattern of literal characters: pat occurs in s
Search(pat, s) ==
    \E i \in 0..(Len(s) - Len(pat)) : SubSeq(s, i + 1, i + Len(pat)) = pat

\* re.sub(r'.*/', '', fn): drop everything up to the last '/'
RECURSIVE ShortName(_)
ShortName(fn) ==
    IF \E i \in 1..Len(fn) : fn[i] = 47
    THEN LET i == CHOOSE j \in 1..Len(fn) : fn[j] = 47
         IN  ShortName(SubSeq(fn, i + 1, Len(fn)))
    ELSE fn

----------------------------------------------------------------------------
(* Frames and formats *)

\* one entry of traceback.extract_stack: (fn, ln, fun)
RawFrame(fn, ln, fun) == [fn |-> fn, ln |-> ln, fun |-> fun]

\* FrameInfo(fname, short_fname, line, fun)
FrameInfo(raw) ==
    [fname |-> raw.fn, short_fname |-> ShortName(raw.fn), line |-> raw.ln, fun |-> raw.fun]

\* extract_frame_info(frame): the stack without its first (outermost) frame
extract_frame_info(stack) ==
    IF stack = <<>> THEN <<>>
    ELSE [i \in 1..(Len(stack) - 1) |-> FrameInfo(stack[i + 1])]

\* format templates: a sequence of literal characters <<"c", code>> and
\* placeholders <<"k", name>>
\* '%(fun)s@%(short_fname)s:%(line)s'
_default_format ==
    << <<"k", "fun">>, <<"c", 64>>, <<"k", "short_fname">>, <<"c", 58>>, <<"k", "line">> >>

\* '%(fn)s': a placeholder the --format help names, absent from FrameInfo
FnFormat == << <<"k", "fn">> >>

Template(fmt) == IF fmt = "default" THEN _default_format ELSE FnFormat

FrameKeys == {"fname", "short_fname", "line", "fun"}

\* fmt % fi._asdict() raises KeyError for a placeholder that is no field
FormatRaises(fmt) ==
    \E i \in 1..Len(Template(fmt)) :
        Template(fmt)[i][1] = "k" /\ Template(fmt)[i][2] \notin FrameKeys

Field(fi, name) ==
    IF name = "fun" THEN fi.fun
    ELSE IF name = "short_fname" THEN fi.short_fname
    ELSE IF name = "fname" THEN fi.fname
    ELSE Str(fi.line)

RECURSIVE Subst(_, _)
Subst(tpl, fi) ==
    IF tpl = <<>> THEN <<>>
    ELSE (IF tpl[1][1] = "c" THEN <<tpl[1][2]>> ELSE Field(fi, tpl[1][2]))
         \o Subst(Tail(tpl), fi)

\* default_format_entry(fi, fmt) where it does not raise
default_format_entry(fi, fmt) == Subst(Template(fmt), fi)

----------------------------------------------------------------------------
(* The stack encoder *)

\* the collapse_recursion loop without its `last = fi.fun`
RECURSIVE CollapsedNoUpdate(_, _, _)
CollapsedNoUpdate(fis, last, fmt) ==
    IF fis = <<>> THEN <<>>
    ELSE (IF last # fis[1].fun THEN <<default_format_entry(fis[1], fmt)>> ELSE <<>>)
         \o CollapsedNoUpdate(Tail(fis), last, fmt)

\* the records of the collapse_recursion branch: a frame is formatted when
\* its fun differs from the fun of the frame before it
RECURSIVE Collapsed(_, _, _)
Collapsed(fis, last, fmt) ==
    IF fis = <<>> THEN <<>>
    ELSE (IF last # fis[1].fun THEN <<default_format_entry(fis[1], fmt)>> ELSE <<>>)
         \o Collapsed(Tail(fis), fis[1].fun, fmt)

\* last = None before the first frame: None differs from every name
NoFun == <<0>>

create_flamegraph_entry(stack, fmt, collapse_recursion) ==
    LET fis == extract_frame_info(stack)
    IN  IF collapse_recursion
        THEN Join(<<59>>, Collapsed(fis, NoFun, fmt))
        ELSE Join(<<59>>, [i \in 1..Len(fis) |-> default_format_entry(fis[i], fmt)])

\* the format function is called once per frame that is formatted; with
\* collapse off that is every frame, with collapse on at least the first
EncodeRaises(stack, fmt) ==
    extract_frame_info(stack) # <<>> /\ FormatRaises(fmt)

----------------------------------------------------------------------------
(* The report *)

\* '%s %d\n' % (key, count)
FormatLine(key, count) == key \o <<32>> \o Str(count) \o <<10>>

\* the greatest string of a non-empty set
MaxStr(S) == CHOOSE a \in S : \A b \in S : ~StrLess(a, b)

\* sorted(S, reverse=True)
RECURSIVE sortedReverse(_)
sortedReverse(S) ==
    IF S = {} THEN <<>> ELSE <<MaxStr(S)>> \o sortedReverse(S \ {MaxStr(S)})

\* the least string of a non-empty set
MinStr(S) == CHOOSE a \in S : \A b \in S : ~StrLess(b, a)

\* sorted(S) for a set of strings
RECURSIVE sorted(_)
sorted(S) ==
    IF S = {} THEN <<>> ELSE <<MinStr(S)>> \o sorted(S \ {MinStr(S)})

\* collections.defaultdict(int).__getitem__: reading a missing key inserts 0
Touch(st, key) ==
    IF key \in DOMAIN st THEN st
    ELSE [k \in DOMAIN st \cup {key} |-> IF k = key THEN 0 ELSE st[k]]

RECURSIVE SumOver(_, _)
SumOver(f, S) ==
    IF S = {} THEN 0
    ELSE LET k == CHOOSE x \in S : TRUE IN f[k] + SumOver(f, S \ {k})

----------------------------------------------------------------------------
(* The programs the profiler interrupts *)

\* the module-level frame of the calling program
ModFrame == RawFrame(<<47, 109>>, 1, <<109>>)
\* two functions of the calling program, a (line 1) and b (line 5) of /f
FrameA == RawFrame(<<47, 102>>, 1, <<97>>)
FrameB == RawFrame(<<47, 102>>, 5, <<98>>)

\* the stacks the calling program can be interrupted with
UserStacks ==
    { <<ModFrame>>, <<ModFrame, FrameA>>, <<ModFrame, FrameB, FrameB>> }

\* a frame of flamegraph.py itself (/g): start is t, stop is s,
\* _write_results is w, on_itimer is i
OwnFrame(fun, ln) == RawFrame(<<47, 103>>, ln, fun)

\* the frames of the Profiler method the base activation is executing
\* (ks: the keys its _write_results still has to write)
CallFrames(p, ks) ==
    IF p = "start59" THEN <<OwnFrame(<<116>>, 59)>>
    ELSE IF p = "start60" THEN <<OwnFrame(<<116>>, 60)>>
    ELSE IF p = "start61" THEN <<OwnFrame(<<116>>, 61)>>
    ELSE IF p = "stop85" THEN <<OwnFrame(<<115>>, 85)>>
    ELSE IF p = "wr70" THEN <<OwnFrame(<<115>>, 86), OwnFrame(<<119>>, 70)>>
    ELSE IF p = "wr71" THEN <<OwnFrame(<<115>>, 86), OwnFrame(<<119>>, 71)>>
    ELSE IF p = "wr75"
         THEN <<OwnFrame(<<115>>, 86), OwnFrame(<<119>>, IF ks = <<>> THEN 76 ELSE 75)>>
    ELSE <<>>

\* the frame of an on_itimer activation that is itself interrupted
TickFrame(t) == OwnFrame(<<105>>, IF t.pc = "on66" THEN 66 ELSE 67)

\* the filter patterns a Profiler is built with: None, or the literal 'a'
NoFilter == <<>>
Filters == {NoFilter, <<97>>}

Threads == {"main", "aux"}

----------------------------------------------------------------------------
(* State *)

VARIABLES
    cfg,        \* the constructor's arguments: [fmt, filter, collapse]
    phase,      \* the process: "run", "exit" (atexit hooks running), "done"
    pc,         \* per thread, the line of Profiler it is at, or "idle"
    keys,       \* per thread, the sorted keys _write_results still has to write
    ustack,     \* the calling program's own stack
    ticks,      \* the on_itimer activations in flight, innermost last
    lock,       \* who holds self._lock: "free", "main", "aux", "tick"
    handler,    \* on_itimer is installed for SIGPROF
    armed,      \* ITIMER_PROF is armed
    tripped,    \* a SIGPROF has arrived and its Python handler has not run yet
    hooks,      \* how many times stop is registered with atexit
    hooksLeft,  \* the atexit hooks still to run
    written,    \* self._written
    stats,      \* self._stats
    fd,         \* the lines written to self._fd
    closes,     \* the number of self._fd.close() calls
    nTicks, nStarts, nStops,  \* the expiries and calls so far (bounded)
    auxCalled,  \* the second thread has made its call of stop()
    produced,   \* history: per entry, the ticks whose encoding returned it
    nAborted    \* history: accepted ticks unwound by an exception before they returned

vars == <<cfg, phase, pc, keys, ustack, ticks, lock, handler, armed, tripped,
          hooks, hooksLeft, written, stats, fd, closes,
          nTicks, nStarts, nStops, auxCalled, produced, nAborted>>

config == <<cfg>>
timer == <<handler, armed, tripped>>
sink == <<fd, closes>>
calls == <<nStarts, nStops, auxCalled>>
history == <<produced, nAborted>>

\* Profiler.__init__ (and the process before start())
Init ==
    /\ cfg \in [fmt : {"default", "fn"}, filter : Filters, collapse : BOOLEAN]
    /\ phase = "run"
    /\ pc = [t \in Threads |-> "idle"]
    /\ keys = [t \in Threads |-> <<>>]
    /\ ustack = <<ModFrame>>
    /\ ticks = <<>>
    /\ lock = "free"
    /\ handler = FALSE /\ armed = FALSE /\ tripped = FALSE
    /\ hooks = 0 /\ hooksLeft = 0
    /\ written = FALSE
    /\ stats = <<>>
    /\ fd = <<>> /\ closes = 0
    /\ nTicks = 0 /\ nStarts = 0 /\ nStops = 0 /\ auxCalled = FALSE
    /\ produced = <<>> /\ nAborted = 0

\* Profiler.num_frames(unique)
num_frames(unique) ==
    IF unique THEN Cardinality(DOMAIN stats) ELSE SumOver(stats, DOMAIN stats)

\* the base activation of thread t is the one executing
Runs(t) == phase # "done" /\ (t = "main" => ticks = <<>>)

----------------------------------------------------------------------------
(* The calling program *)

\* the calling program calls profiler.start()
CallStart ==
    /\ phase = "run" /\ pc["main"] = "idle" /\ Runs("main")
    /\ nStarts < MaxStarts
    /\ nStarts' = nStarts + 1
    /\ pc' = [pc EXCEPT !["main"] = "start59"]
    /\ UNCHANGED <<config, phase, keys, ustack, ticks, lock, timer, hooks, hooksLeft,
                   written, stats, sink, nTicks, nStops, auxCalled, history>>

\* the calling program calls profiler.stop()
CallStop ==
    /\ phase = "run" /\ pc["main"] = "idle" /\ Runs("main")
    /\ nStops < MaxStops
    /\ nStops' = nStops + 1
    /\ pc' = [pc EXCEPT !["main"] = "stop85"]
    /\ UNCHANGED <<config, phase, keys, ustack, ticks, lock, timer, hooks, hooksLeft,
                   written, stats, sink, nTicks, nStarts, auxCalled, history>>

\* the second thread calls profiler.stop(), once
AuxCallStop ==
    /\ pc["aux"] = "idle" /\ Runs("aux")
    /\ ~auxCalled
    /\ auxCalled' = TRUE
    /\ pc' = [pc EXCEPT !["aux"] = "stop85"]
    /\ UNCHANGED <<config, phase, keys, ustack, ticks, lock, timer, hooks, hooksLeft,
                   written, stats, sink, nTicks, nStarts, nStops, history>>

\* the calling program ends: the interpreter starts running the atexit hooks
\* (the second thread, a daemon, may still be running)
Exit ==
    /\ phase = "run" /\ pc["main"] = "idle" /\ Runs("main")
    /\ phase' = "exit"
    /\ hooksLeft' = hooks
    /\ UNCHANGED <<config, pc, keys, ustack, ticks, lock, timer, hooks,
                   written, stats, sink, nTicks, calls, history>>

\* atexit runs the next registered hook: self.stop
RunHook ==
    /\ phase = "exit" /\ pc["main"] = "idle" /\ Runs("main")
    /\ hooksLeft > 0
    /\ hooksLeft' = hooksLeft - 1
    /\ pc' = [pc EXCEPT !["main"] = "stop85"]
    /\ UNCHANGED <<config, phase, keys, ustack, ticks, lock, timer, hooks,
                   written, stats, sink, nTicks, calls, history>>

\* every hook has run: the process is gone
Finish ==
    /\ phase = "exit" /\ pc["main"] = "idle" /\ Runs("main")
    /\ hooksLeft = 0
    /\ phase' = "done"
    /\ UNCHANGED <<config, pc, keys, ustack, ticks, lock, timer, hooks, hooksLeft,
                   written, stats, sink, nTicks, calls, history>>

----------------------------------------------------------------------------
(* Profiler.start *)

\* signal.signal(signal.SIGPROF, self.on_itimer)
Start59 ==
    /\ pc["main"] = "start59" /\ Runs("main")
    /\ handler' = TRUE
    /\ pc' = [pc EXCEPT !["main"] = "start60"]
    /\ UNCHANGED <<config, phase, keys, ustack, ticks, lock, armed, tripped, hooks,
                   hooksLeft, written, stats, sink, nTicks, calls, history>>

\* signal.setitimer(signal.ITIMER_PROF, self._interval, self._interval)
Start60 ==
    /\ pc["main"] = "start60" /\ Runs("main")
    /\ armed' = TRUE
    /\ pc' = [pc EXCEPT !["main"] = "start61"]
    /\ UNCHANGED <<config, phase, keys, ustack, ticks, lock, handler, tripped, hooks,
                   hooksLeft, written, stats, sink, nTicks, calls, history>>

\* atexit.register(self.stop)
Start61 ==
    /\ pc["main"] = "start61" /\ Runs("main")
    /\ hooks' = hooks + 1
    /\ pc' = [pc EXCEPT !["main"] = "idle"]
    /\ UNCHANGED <<config, phase, keys, ustack, ticks, lock, timer,
                   hooksLeft, written, stats, sink, nTicks, calls, history>>

----------------------------------------------------------------------------
(* Profiler.stop and Profiler._write_results *)

\* signal.setitimer(signal.ITIMER_PROF, 0)
Stop85(t) ==
    /\ pc[t] = "stop85" /\ Runs(t)
    /\ armed' = FALSE
    /\ pc' = [pc EXCEPT ![t] = "wr70"]
    /\ UNCHANGED <<config, phase, keys, ustack, ticks, lock, handler, tripped, hooks,
                   hooksLeft, written, stats, sink, nTicks, calls, history>>

\* _write_results entered without `with self._lock:`
Wr70NoLock(t) ==
    /\ pc[t] = "wr70" /\ Runs(t)
    /\ pc' = [pc EXCEPT ![t] = "wr71"]
    /\ UNCHANGED <<config, phase, keys, ustack, ticks, lock, timer, hooks,
                   hooksLeft, written, stats, sink, nTicks, calls, history>>

\* with self._lock: (blocks while the lock is held)
Wr70(t) ==
    /\ pc[t] = "wr70" /\ Runs(t)
    /\ lock = "free"
    /\ lock' = t
    /\ pc' = [pc EXCEPT ![t] = "wr71"]
    /\ UNCHANGED <<config, phase, keys, ustack, ticks, timer, hooks,
                   hooksLeft, written, stats, sink, nTicks, calls, history>>

\* if self._written: return / self._written = True / sorted(self._stats.keys())
Wr71(t) ==
    /\ pc[t] = "wr71" /\ Runs(t)
    /\ IF written
       THEN /\ lock' = "free"
            /\ pc' = [pc EXCEPT ![t] = "idle"]
            /\ UNCHANGED <<written, keys>>
       ELSE /\ written' = TRUE
            /\ keys' = [keys EXCEPT ![t] = sorted(DOMAIN stats)]
            /\ pc' = [pc EXCEPT ![t] = "wr75"]
            /\ UNCHANGED lock
    /\ UNCHANGED <<config, phase, ustack, ticks, timer, hooks,
                   hooksLeft, stats, sink, nTicks, calls, history>>

\* self._fd.write('%s %d\n' % (key, self._stats[key])) for the next key
Wr75(t) ==
    /\ pc[t] = "wr75" /\ Runs(t)
    /\ keys[t] # <<>>
    /\ LET key == Head(keys[t])
       IN  /\ stats' = Touch(stats, key)
           /\ fd' = Append(fd, FormatLine(key, stats'[key]))
    /\ keys' = [keys EXCEPT ![t] = Tail(keys[t])]
    /\ UNCHANGED <<config, phase, pc, ustack, ticks, lock, timer, hooks,
                   hooksLeft, written, closes, nTicks, calls, history>>

\* self._fd.close(), leave the with block, return
Wr76(t) ==
    /\ pc[t] = "wr75" /\ Runs(t)
    /\ keys[t] = <<>>
    /\ closes' = closes + 1
    /\ lock' = "free"
    /\ pc' = [pc EXCEPT ![t] = "idle"]
    /\ UNCHANGED <<config, phase, keys, ustack, ticks, timer, hooks,
                   hooksLeft, written, stats, fd, nTicks, calls, history>>

----------------------------------------------------------------------------
(* The timer and Profiler.on_itimer *)

\* ITIMER_PROF expires: SIGPROF is raised and CPython's C-level handler
\* marks it tripped (a second expiry before the Python handler ran merges).
\* The C-level handler runs in whichever thread the kernel delivers the
\* signal to, and on_itimer runs later in the main thread, at one of its
\* bytecode boundaries; with a second thread in the process that boundary
\* can lie any number of main-thread steps after the expiry, also after the
\* timer was disarmed.  HandleTick is therefore enabled at every later
\* boundary, not only at the next one.
TimerFire ==
    /\ phase # "done"
    /\ armed /\ ~tripped
    /\ nTicks < MaxTicks
    /\ tripped' = TRUE
    /\ nTicks' = nTicks + 1
    /\ UNCHANGED <<config, phase, pc, keys, ustack, ticks, lock, handler, armed, hooks,
                   hooksLeft, written, stats, sink, calls, history>>

\* the stack of the main thread: what extract_stack(frame) returns for the
\* frame a handler invoked now interrupts, the calling program being in us
CurrentStack(us) ==
    (IF phase = "run" THEN us ELSE <<>>)
    \o CallFrames(pc["main"], keys["main"])
    \o [i \in 1..Len(ticks) |-> TickFrame(ticks[i])]

\* the filter left out: every entry is counted
AcceptsAll(entry) == TRUE

\* self._filter is None or self._filter.search(entry)
Accepts(entry) == cfg.filter = NoFilter \/ Search(cfg.filter, entry)

\* an exception leaves on_itimer (it has no try/except): it unwinds every
\* activation of the main thread (each with block releases the lock it
\* holds) up to the calling program, which does not catch it and ends (its
\* atexit hooks run; main() reaches them through its finally block), or up
\* to atexit, which reports it and goes on to the next hook
Unwind ==
    /\ ticks' = <<>>
    /\ lock' = IF lock \in {"main", "tick"} THEN "free" ELSE lock
    /\ pc' = [pc EXCEPT !["main"] = "idle"]
    /\ keys' = [keys EXCEPT !["main"] = <<>>]
    /\ IF phase = "run"
       THEN phase' = "exit" /\ hooksLeft' = hooks
       ELSE UNCHANGED <<phase, hooksLeft>>
    /\ nAborted' = nAborted + Len(ticks)

\* Python code of the main thread is running (between the atexit hooks none is)
MainRunsPython == phase = "run" \/ (phase = "exit" /\ pc["main"] # "idle")

\* the calling program is executing its own code (no Profiler method, no
\* handler): its stack moves
UserCodeRuns == phase = "run" /\ pc["main"] = "idle" /\ ticks = <<>>

\* on_itimer is invoked between two bytecodes of the main thread, the calling
\* program being in stack us; lines 64-65:
\* entry = create_flamegraph_entry(...); the filter
HandleTick(us) ==
    /\ tripped /\ handler /\ MainRunsPython
    /\ IF UserCodeRuns THEN TRUE ELSE us = ustack
    /\ ustack' = us
    /\ tripped' = FALSE
    /\ IF EncodeRaises(CurrentStack(us), cfg.fmt)
       THEN /\ Unwind
            /\ UNCHANGED produced
       ELSE LET entry == create_flamegraph_entry(CurrentStack(us), cfg.fmt, cfg.collapse)
            IN  /\ produced' = [Touch(produced, entry) EXCEPT ![entry] = @ + 1]
                /\ ticks' = IF Accepts(entry)
                            THEN Append(ticks, [pc |-> "on66", entry |-> entry, v |-> 0])
                            ELSE ticks
                /\ UNCHANGED <<phase, pc, keys, lock, hooksLeft, nAborted>>
    /\ UNCHANGED <<config, handler, armed, hooks, written, stats, sink,
                   nTicks, calls>>

\* the innermost on_itimer activation
Top == ticks[Len(ticks)]
SetTop(t) == [ticks EXCEPT ![Len(ticks)] = t]

\* with self._lock: (blocks while the lock is held)
On66 ==
    /\ phase # "done" /\ ticks # <<>> /\ Top.pc = "on66"
    /\ lock = "free"
    /\ lock' = "tick"
    /\ ticks' = SetTop([Top EXCEPT !.pc = "on67"])
    /\ UNCHANGED <<config, phase, pc, keys, ustack, timer, hooks, hooksLeft,
                   written, stats, sink, nTicks, calls, history>>

\* self._stats[entry] += 1, the read: self._stats[entry]
On67 ==
    /\ phase # "done" /\ ticks # <<>> /\ Top.pc = "on67"
    /\ stats' = Touch(stats, Top.entry)
    /\ ticks' = SetTop([Top EXCEPT !.pc = "on67s", !.v = stats'[Top.entry]])
    /\ UNCHANGED <<config, phase, pc, keys, ustack, lock, timer, hooks, hooksLeft,
                   written, sink, nTicks, calls, history>>

\* self._stats[entry] = 1 in place of += 1
IncrementedOnce(v) == 1

\* the value on_itimer stores for a count it read as v
Incremented(v) == v + 1

\* self._stats[entry] += 1, the store; leave the with block; return
On67s ==
    /\ phase # "done" /\ ticks # <<>> /\ Top.pc = "on67s"
    /\ stats' = [stats EXCEPT ![Top.entry] = Incremented(Top.v)]
    /\ lock' = "free"
    /\ ticks' = SubSeq(ticks, 1, Len(ticks) - 1)
    /\ UNCHANGED <<config, phase, pc, keys, ustack, timer, hooks, hooksLeft,
                   written, sink, nTicks, calls, history>>

----------------------------------------------------------------------------

Next ==
    \/ CallStart
    \/ CallStop
    \/ AuxCallStop
    \/ Exit
    \/ RunHook
    \/ Finish
    \/ Start59
    \/ Start60
    \/ Start61
    \/ \E t \in Threads : Stop85(t)
    \/ \E t \in Threads : Wr70(t)
    \/ \E t \in Threads : Wr71(t)
    \/ \E t \in Threads : Wr75(t)
    \/ \E t \in Threads : Wr76(t)
    \/ TimerFire
    \/ \E us \in UserStacks : HandleTick(us)
    \/ On66
    \/ On67
    \/ On67s

Spec == Init /\ [][Next]_vars

----------------------------------------------------------------------------
(* The stack encoder on its own: create_flamegraph_entry applied to one
   stack with the default format *)

\* the greatest number of frames above the module-level frame
MaxDepth == 4

\* a second call site of a, on line 2 of /f (a calling itself)
FrameA2 == RawFrame(<<47, 102>>, 2, <<97>>)

EncFrames == {FrameA, FrameA2, FrameB}

\* the stacks extract_stack can return: the module-level frame, then up to
\* MaxDepth frames
EncStacks ==
    { <<ModFrame>> \o s : s \in UNION { [1..n -> EncFrames] : n \in 0..MaxDepth } }

\* a stack and the collapse_recursion flag, nothing encoded yet
EncInit ==
    /\ cfg \in [fmt : {"default"}, filter : {NoFilter}, collapse : BOOLEAN]
    /\ ustack \in EncStacks
    /\ phase = "run"
    /\ pc = [t \in Threads |-> "idle"]
    /\ keys = [t \in Threads |-> <<>>]
    /\ ticks = <<>>
    /\ lock = "free"
    /\ handler = FALSE /\ armed = FALSE /\ tripped = FALSE
    /\ hooks = 0 /\ hooksLeft = 0
    /\ written = FALSE
    /\ stats = <<>>
    /\ fd = <<>> /\ closes = 0
    /\ nTicks = 0 /\ nStarts = 0 /\ nStops = 0 /\ auxCalled = FALSE
    /\ produced = <<>> /\ nAborted = 0

\* create_flamegraph_entry(frame, default_format_entry, collapse_recursion):
\* the entry it returns is recorded in produced
Encode ==
    /\ produced = <<>>
    /\ LET entry == create_flamegraph_entry(ustack, cfg.fmt, cfg.collapse)
       IN  produced' = [Touch(produced, entry) EXCEPT ![entry] = @ + 1]
    /\ UNCHANGED <<config, phase, pc, keys, ustack, ticks, lock, timer, hooks,
                   hooksLeft, written, stats, sink, nTicks, calls, nAborted>>

EncNext == Encode

SpecEncode == EncInit /\ [][EncNext]_vars

----------------------------------------------------------------------------
(* Reading the report back *)

\* the position of the last space of a report line
LastSpace(line) ==
    CHOOSE i \in 1..Len(line) :
        line[i] = 32 /\ \A j \in (i + 1)..Len(line) : line[j] # 32

\* int(digits)
RECURSIVE Num(_)
Num(d) ==
    IF d = <<>> THEN 0
    ELSE 10 * Num(SubSeq(d, 1, Len(d) - 1)) + (d[Len(d)] - 48)

\* the entry and the count of the report line '<entry> <count>\n'
LineKey(line) == SubSeq(line, 1, LastSpace(line) - 1)
LineCount(line) == Num(SubSeq(line, LastSpace(line) + 1, Len(line) - 1))

RECURSIVE SumCounts(_)
SumCounts(lines) ==
    IF lines = <<>> THEN 0 ELSE LineCount(lines[1]) + SumCounts(Tail(lines))

\* the filter as the constructor was given it, applied to an entry
Matches(entry) == cfg.filter = NoFilter \/ Search(cfg.filter, entry)

\* no on_itimer activation is in flight and none was cut short
Quiet == ticks = <<>> /\ nAborted = 0

\* thread t takes a step of stop() / of start()
StopStep(t) ==
    /\ pc[t] \in {"stop85", "wr70", "wr71", "wr75"}
    /\ (pc'[t] # pc[t] \/ keys'[t] # keys[t])
    /\ ticks' = ticks /\ tripped' = tripped
StartStep ==
    /\ pc["main"] \in {"start59", "start60", "start61"}
    /\ pc'["main"] # pc["main"]
    /\ ticks' = ticks /\ tripped' = tripped

\* on_itimer is invoked in this step and its encoding raises
FailingTick ==
    /\ tripped /\ ~tripped'
    /\ EncodeRaises(CurrentStack(ustack'), cfg.fmt)

----------------------------------------------------------------------------
(* The claims *)

\* C1: however many times stop() is invoked, from the main thread, the atexit
\* hook or a second thread, the finalize sequence of _write_results runs
\* exactly once: the sink is never closed twice, and a finalize sequence that
\* has begun (_written set) is either still being executed by some thread or
\* has closed the sink, so that no stop() returns with the report unfinished.
C1_FinalizeExactlyOnce ==
    /\ closes <= 1
    /\ (written /\ closes = 0) => \E t \in Threads : pc[t] = "wr75"

\* C2: no on_itimer activation waits for self._lock while the lock is held
\* by code of the main thread that it interrupted (the base activation inside
\* _write_results, or an on_itimer activation below it on the stack).
C2_HandlerNeverBlocks ==
    \A i \in 1..Len(ticks) :
        ticks[i].pc = "on66" =>
            /\ lock # "main"
            /\ \A j \in 1..(i - 1) : ticks[j].pc \notin {"on67", "on67s"}

\* C3: when every handler has returned, num_frames() is the number of ticks
\* whose entry was accepted, num_frames(unique=True) the number of distinct
\* accepted entries, and each entry's count the number of ticks that produced it.
C3_CountsMatchTicks ==
    Quiet =>
        LET accepted == {k \in DOMAIN produced : Accepts(k)}
        IN  /\ num_frames(FALSE) = SumOver(produced, accepted)
            /\ num_frames(TRUE) = Cardinality(accepted)
            /\ DOMAIN stats = accepted
            /\ \A k \in accepted : stats[k] = produced[k]

C3_Witness ==
    Quiet /\ num_frames(FALSE) = 2 /\ num_frames(TRUE) = 1

\* C4: the lines of the sink are in strictly increasing order of their entry
\* (sorted, no entry twice), and when _write_results closes the sink the
\* lines are exactly the aggregator's entries, each with its count.
C4_ReportSortedAndComplete ==
    /\ [](\A i, j \in 1..Len(fd) : i < j => StrLess(LineKey(fd[i]), LineKey(fd[j])))
    /\ [][closes' = closes + 1 =>
            /\ Len(fd') = Cardinality(DOMAIN stats')
            /\ {<<LineKey(fd'[i]), LineCount(fd'[i])>> : i \in 1..Len(fd')}
                 = {<<k, stats'[k]>> : k \in DOMAIN stats'}]_vars

C4_Witness ==
    closes = 1 /\ Len(fd) = 2

\* C5: once the report is finalized the aggregator is frozen: the counts of
\* the report add up to num_frames() and its lines number num_frames(unique=True).
C5_FrozenAfterStop ==
    closes = 1 =>
        /\ SumCounts(fd) = num_frames(FALSE)
        /\ Len(fd) = num_frames(TRUE)

\* C6: a step of stop() taken while the Profiler is Idle (start() never
\* called) or Stopped (report finalized) changes neither the sink, nor the
\* finalized flag, nor the aggregator, nor the interval timer.
C6_StopNoOpWhenIdleOrStopped ==
    [][\A t \in Threads :
          (StopStep(t) /\ (nStarts = 0 \/ closes = 1)) =>
              UNCHANGED <<fd, closes, written, stats, armed>>]_vars

\* C7: start() takes effect only from Idle: a step of start() on a Profiler
\* that has been started or stopped neither installs the handler, nor arms
\* the timer, nor registers a hook; and a Stopped Profiler counts no sample.
C7_LifecycleOneWay ==
    /\ [][(StartStep /\ (hooks >= 1 \/ written)) =>
              UNCHANGED <<handler, armed, hooks>>]_vars
    /\ [][closes = 1 => stats' = stats]_vars

\* C8: a tick whose encoding raises leaves the interrupted program where it
\* was (the base activation, the handlers below, the process phase), the
\* aggregator unchanged and the lock as it was.
C8_TickFailureContained ==
    [][FailingTick => UNCHANGED <<phase, pc, keys, ticks, stats, lock>>]_vars

\* C9: an entry that does not match the filter pattern is never a key of the
\* aggregator, and when every handler has returned each matching entry (every
\* entry when there is no pattern) is counted once per tick that produced it.
C9_FilterExclusion ==
    /\ \A k \in DOMAIN stats : Matches(k)
    /\ Quiet =>
          \A k \in DOMAIN produced :
              Matches(k) => k \in DOMAIN stats /\ stats[k] = produced[k]

C9_Witness ==
    /\ cfg.filter # NoFilter /\ Quiet
    /\ \E k \in DOMAIN produced : ~Matches(k)
    /\ \E k \in DOMAIN stats : stats[k] >= 1

\* C10: when the process has terminated after a completed start(), the
\* report has been written and the sink closed, once.
C10_ReportAtExit ==
    (phase = "done" /\ hooks >= 1) => (written /\ closes = 1)

\* the line matches ^[^ ]+ [0-9]+$ (followed by its newline) and its count
\* is positive
WellFormedLine(line) ==
    /\ Len(line) >= 1 /\ line[Len(line)] = 10
    /\ \E i \in 1..Len(line) : line[i] = 32
    /\ LET sp == LastSpace(line)
           digits == SubSeq(line, sp + 1, Len(line) - 1)
       IN  /\ sp > 1
           /\ \A j \in 1..(sp - 1) : line[j] # 32
           /\ digits # <<>>
           /\ \A j \in 1..Len(digits) : digits[j] \in 48..57
           /\ Num(digits) >= 1

\* C11: with the default frame format every line of the report is
\* '<entry> <count>' with a non-empty entry that holds no space and a
\* positive decimal count, whatever stack the ticks captured.
C11_LinesWellFormed ==
    cfg.fmt = "default" => \A i \in 1..Len(fd) : WellFormedLine(fd[i])

\* thread t is between the start of the drain (it holds the lock of
\* _write_results) and the closing of the sink
Draining(t) == pc[t] \in {"wr71", "wr75"}

\* C12: while a drain is in progress the timer stays disarmed, no on_itimer
\* activation is invoked or in flight (so no increment is attempted), and the
\* sink is closed only by a drain that has written its last line.
C12_NoTickDuringDrain ==
    [][ /\ (\E t \in Threads : Draining(t)')
           => ~armed' /\ ticks' = <<>>
        /\ (\E t \in Threads : Draining(t))
           => ~(tripped /\ ~tripped')
        /\ closes' # closes
           => \E t \in Threads : pc[t] = "wr75" /\ keys[t] = <<>> ]_vars

\* the pieces of s between its ';' characters
RECURSIVE Split(_)
Split(s) ==
    IF \A i \in 1..Len(s) : s[i] # 59 THEN <<s>>
    ELSE LET i == CHOOSE j \in 1..Len(s) :
                      s[j] = 59 /\ \A k \in 1..(j - 1) : s[k] # 59
         IN  <<SubSeq(s, 1, i - 1)>> \o Split(SubSeq(s, i + 1, Len(s)))

\* the positions of the frames of stack that get a record: every frame after
\* the skipped first one or, with collapse on, those whose routine name
\* differs from the name of the frame just before them
Kept(stack, collapse) ==
    { i \in 2..Len(stack) : ~collapse \/ i = 2 \/ stack[i].fun # stack[i - 1].fun }

\* the formatted records of the frames at the positions K, in frame order
RECURSIVE RecordsAt(_, _)
RecordsAt(stack, K) ==
    IF K = {} THEN <<>>
    ELSE LET i == CHOOSE j \in K : \A k \in K : j <= k
         IN  <<default_format_entry(FrameInfo(stack[i]), "default")>>
             \o RecordsAt(stack, K \ {i})

\* the one entry an Encode step has returned
Encoded == CHOOSE e \in DOMAIN produced : TRUE

\* C13: the entry create_flamegraph_entry returns is the ';'-joined records,
\* in frame order, of exactly the frames whose routine name differs from the
\* name of the frame immediately before them (collapse on) or of every frame
\* (collapse off).
C13_RecordsOfEntry ==
    produced # <<>> =>
        LET recs == RecordsAt(ustack, Kept(ustack, cfg.collapse))
        IN  /\ Cardinality(DOMAIN produced) = 1
            /\ IF recs = <<>> THEN Encoded = <<>> ELSE Split(Encoded) = recs

\* names a,a,b,a with collapse on have been encoded as 'a@f:1;b@f:5;a@f:1'
C13_Witness ==
    /\ ustack = <<ModFrame, FrameA, FrameA2, FrameB, FrameA>>
    /\ cfg.collapse
    /\ produced # <<>>
    /\ Encoded = <<97, 64, 102, 58, 49, 59, 98, 64, 102, 58, 53, 59,
                   97, 64, 102, 58, 49>>

\* the on_itimer activations inside `with self._lock:`
InSection == { i \in 1..Len(ticks) : ticks[i].pc \in {"on67", "on67s"} }

\* C14: from the check of the finalized flag to the closing of the sink the
\* draining thread holds the lock, and the lines it has written carry the
\* counts the aggregator still has (no increment took effect in between); an
\* increment between its read and its store holds the lock, is the only one
\* to do so, and finds the count it read unchanged.
C14_AtomicSnapshot ==
    /\ \A t \in Threads :
           Draining(t) =>
               /\ lock = t
               /\ InSection = {}
               /\ pc[t] = "wr75" =>
                      /\ \A i \in 1..Len(fd) :
                             /\ LineKey(fd[i]) \in DOMAIN stats
                             /\ LineCount(fd[i]) = stats[LineKey(fd[i])]
                      /\ DOMAIN stats =
                             {LineKey(fd[i]) : i \in 1..Len(fd)}
                             \cup {keys[t][i] : i \in 1..Len(keys[t])}
    /\ InSection # {} =>
           /\ lock = "tick"
           /\ Cardinality(InSection) = 1
    /\ \A i \in InSection :
           ticks[i].pc = "on67s" =>
               /\ ticks[i].entry \in DOMAIN stats
               /\ stats[ticks[i].entry] = ticks[i].v

\* a drain has written a line while a handler is waiting at the lock for its
\* increment
C14_Witness ==
    \E t \in Threads :
        /\ pc[t] = "wr75" /\ fd # <<>>
        /\ ticks # <<>> /\ Top.pc = "on66"
        /\ Top.entry \in DOMAIN stats

\* C15: every key of the aggregator has a count of at least 1, and no line
\* of the report has the count 0.
C15_CountsPositive ==
    /\ \A k \in DOMAIN stats : stats[k] >= 1
    /\ \A i \in 1..Len(fd) : LineCount(fd[i]) >= 1

====
